---- MODULE Spec2Model ----
(***************************************************************************)
(* DPLL SAT solver of src/main.rs: dpll, pick_literal, unit_propagate and  *)
(* simplify.  The recursion of dpll is an explicit stack of call frames;   *)
(* unit_propagate's loop takes one step per iteration.                     *)
(***************************************************************************)
EXTENDS Integers, Sequences, FiniteSets, TLC

\* ------------------------------------------------------------------ bounds
\* number of distinct variable names the input formulas draw from
NumVars == 2
\* size of an input CNF: one per clause plus one per literal occurrence
MaxSize == 5

\* ------------------------------------------------------------- data model
AllNames == <<"a", "b", "c", "d">>
Names == {AllNames[i] : i \in 1..NumVars}

\* struct Literal { name, negated }
Literal == [name : Names, negated : BOOLEAN]

\* type Clause = Vec<Literal>, here the clauses of n literals
Clause(n) == [1..n -> Literal]

\* type CNF = Vec<Clause>, here every CNF of size at most s
RECURSIVE CNF(_)
CNF(s) ==
  {<< >>} \cup
  UNION {{<<c>> \o rest : c \in Clause(n), rest \in CNF(s - 1 - n)} :
           n \in 0..(s - 1)}

\* type Assignment = HashMap<String, bool>
Assignment == UNION {[D -> BOOLEAN] : D \in SUBSET Names}

\* HashMap::new()
EmptyAssignment == [n \in {} |-> TRUE]

\* HashMap::insert
insert(assignment, name, value) ==
  [n \in (DOMAIN assignment) \cup {name} |->
     IF n = name THEN value ELSE assignment[n]]

\* Option<T>
Some(v) == [tag |-> "Some", val |-> v]
None == [tag |-> "None"]
\* no value returned yet
Running == [tag |-> "Running"]

\* --------------------------------------------------------------- simplify
\* mutant: the polarity of the literal is ignored
literal_assigned(literal, assignment) ==
  literal.name \in DOMAIN assignment

\* closure of the first retain: the literal evaluates to true
literal_true(literal, assignment) ==
  IF literal.name \in DOMAIN assignment
  THEN assignment[literal.name] # literal.negated
  ELSE FALSE

\* closure of the second retain: the literal is kept
literal_kept(literal, assignment) ==
  IF literal.name \in DOMAIN assignment
  THEN assignment[literal.name] = literal.negated
  ELSE TRUE

clause_satisfied(clause, assignment) ==
  \E i \in 1..Len(clause) : literal_true(clause[i], assignment)

\* mutant: the negation is lost, the satisfied clauses are the ones kept
retain_satisfied(cnf, assignment) ==
  SelectSeq(cnf, LAMBDA clause : clause_satisfied(clause, assignment))

\* cnf.retain(|clause| !clause.iter().any(..))
retain_unsatisfied(cnf, assignment) ==
  SelectSeq(cnf, LAMBDA clause : ~clause_satisfied(clause, assignment))

\* clause.retain(..) for every clause
retain_literals(cnf, assignment) ==
  [i \in 1..Len(cnf) |->
     SelectSeq(cnf[i], LAMBDA literal : literal_kept(literal, assignment))]

\* mutant: nothing is retained away, the formula comes back as it was
simplify_nothing(cnf, assignment) == Some(cnf)

simplify(cnf, assignment) ==
  LET kept == retain_literals(retain_unsatisfied(cnf, assignment), assignment)
  IN IF \E i \in 1..Len(kept) : kept[i] = << >>
     THEN None
     ELSE Some(kept)

\* --------------------------------------------------------- unit_propagate
\* mutant: only the first clause is looked at
find_unit_first_clause(cnf) ==
  IF Len(cnf) >= 1 /\ Len(cnf[1]) = 1 THEN 1 ELSE 0

\* cnf.iter().find_map(..): index of the first unit clause, 0 when there is none
find_unit(cnf) ==
  LET units == {i \in 1..Len(cnf) : Len(cnf[i]) = 1}
  IN IF units = {} THEN 0
     ELSE CHOOSE i \in units : \A j \in units : i <= j

\* mutant: the formula is simplified under the assignment before the loop ends
unit_propagate_iter_simplify_on_break(cnf, assignment) ==
  LET u == find_unit(cnf)
  IN IF u = 0
     THEN LET s == simplify(cnf, assignment)
          IN IF s.tag = "None"
             THEN [tag |-> "None", cnf |-> cnf, assignment |-> assignment]
             ELSE [tag |-> "break", cnf |-> s.val, assignment |-> assignment]
     ELSE LET unit == cnf[u][1]
              value_to_assign == ~unit.negated
          IN IF unit.name \in DOMAIN assignment
                /\ assignment[unit.name] # value_to_assign
             THEN [tag |-> "None", cnf |-> cnf, assignment |-> assignment]
             ELSE LET a2 == IF unit.name \in DOMAIN assignment
                            THEN assignment
                            ELSE insert(assignment, unit.name, value_to_assign)
                      s == simplify(cnf, a2)
                  IN IF s.tag = "None"
                     THEN [tag |-> "None", cnf |-> cnf, assignment |-> a2]
                     ELSE [tag |-> "continue", cnf |-> s.val, assignment |-> a2]

\* one iteration of the loop: "break", "None" (return None) or "continue",
\* with the cnf and the assignment as the iteration leaves them
unit_propagate_iter(cnf, assignment) ==
  LET u == find_unit(cnf)
  IN IF u = 0
     THEN [tag |-> "break", cnf |-> cnf, assignment |-> assignment]
     ELSE LET unit == cnf[u][1]
              value_to_assign == ~unit.negated
          IN IF unit.name \in DOMAIN assignment
                /\ assignment[unit.name] # value_to_assign
             THEN [tag |-> "None", cnf |-> cnf, assignment |-> assignment]
             ELSE LET a2 == IF unit.name \in DOMAIN assignment
                            THEN assignment
                            ELSE insert(assignment, unit.name, value_to_assign)
                      s == simplify(cnf, a2)
                  IN IF s.tag = "None"
                     THEN [tag |-> "None", cnf |-> cnf, assignment |-> a2]
                     ELSE [tag |-> "continue", cnf |-> s.val, assignment |-> a2]

\* the whole call: the loop run to its end
RECURSIVE unit_propagate(_, _)
unit_propagate(cnf, assignment) ==
  LET r == unit_propagate_iter(cnf, assignment)
  IN IF r.tag = "continue"
     THEN unit_propagate(r.cnf, r.assignment)
     ELSE [tag |-> IF r.tag = "break" THEN "Some" ELSE "None",
           cnf |-> r.cnf, assignment |-> r.assignment]

\* ----------------------------------------------------------- pick_literal
\* the literals of the cnf in scan order
RECURSIVE literals_of(_)
literals_of(cnf) ==
  IF cnf = << >> THEN << >> ELSE Head(cnf) \o literals_of(Tail(cnf))

\* mutant: the first literal is returned, assigned or not
pick_literal_any(cnf, assignment) ==
  LET ls == literals_of(cnf)
  IN IF ls = << >> THEN None ELSE Some(ls[1])

pick_literal(cnf, assignment) ==
  LET ls == SelectSeq(literals_of(cnf),
                      LAMBDA literal : literal.name \notin DOMAIN assignment)
  IN IF ls = << >> THEN None ELSE Some(ls[1])

\* ------------------------------------------------------------------- dpll
\* for value in [true, false]
values == <<TRUE, FALSE>>

\* mutant: the branch starts from a new map
branch_assignment_fresh(assignment, literal, value) ==
  insert(EmptyAssignment, literal.name, value)

\* let mut assignment = assignment.clone(); assignment.insert(name, value)
branch_assignment(assignment, literal, value) ==
  insert(assignment, literal.name, value)

\* mutant: the dead end reports the assignment
dead_end_some(cnf, assignment) == Some(assignment)

\* the None arm of the match on pick_literal
dead_end(cnf, assignment) ==
  IF cnf = << >> THEN Some(assignment) ELSE None

NoLiteral == [name |-> "", negated |-> FALSE]

VARIABLES
  input,     \* the CNF given to the top-level call
  stack,     \* the frames of the nested dpll calls, the running one last
  ret,       \* the value the call that returned last gave back
  fn_pc,     \* position of the direct calls of simplify and unit_propagate
  fn_in,     \* their arguments
  fn_once,   \* simplify(cnf, A)
  fn_twice,  \* simplify of that result under A
  fn_up      \* unit_propagate's loop state

vars == <<input, stack, ret, fn_pc, fn_in, fn_once, fn_twice, fn_up>>
fn_vars == <<fn_pc, fn_in, fn_once, fn_twice, fn_up>>
dpll_vars == <<input, stack, ret>>

Frame(cnf, assignment) ==
  [cnf |-> cnf, assignment |-> assignment, pc |-> "unit_propagate",
   literal |-> NoLiteral, value |-> 1]

top == stack[Len(stack)]
Pop == SubSeq(stack, 1, Len(stack) - 1)
SetTop(f) == [stack EXCEPT ![Len(stack)] = f]
Done == stack = << >> /\ ret.tag # "Running"

\* dpll(formula, &mut HashMap::new())
Init ==
  /\ input \in CNF(MaxSize)
  /\ stack = <<Frame(input, EmptyAssignment)>>
  /\ ret = Running
  /\ fn_pc = "idle"
  /\ fn_in = [cnf |-> << >>, assignment |-> EmptyAssignment]
  /\ fn_once = Running
  /\ fn_twice = Running
  /\ fn_up = [tag |-> "idle", cnf |-> << >>, assignment |-> EmptyAssignment]

\* unit_propagate: an iteration that resolves a unit clause and goes on
UnitPropagateStep ==
  /\ stack # << >> /\ top.pc = "unit_propagate"
  /\ LET r == unit_propagate_iter(top.cnf, top.assignment)
     IN /\ r.tag = "continue"
        /\ stack' = SetTop([top EXCEPT !.cnf = r.cnf, !.assignment = r.assignment])
  /\ UNCHANGED <<input, ret, fn_vars>>

\* unit_propagate: no unit clause is left, Some(cnf)
UnitPropagateBreak ==
  /\ stack # << >> /\ top.pc = "unit_propagate"
  /\ LET r == unit_propagate_iter(top.cnf, top.assignment)
     IN /\ r.tag = "break"
        /\ stack' = SetTop([top EXCEPT !.cnf = r.cnf, !.pc = "check"])
  /\ UNCHANGED <<input, ret, fn_vars>>

\* unit_propagate returns None, and dpll with it (the ? operator)
UnitPropagateNone ==
  /\ stack # << >> /\ top.pc = "unit_propagate"
  /\ unit_propagate_iter(top.cnf, top.assignment).tag = "None"
  /\ stack' = Pop
  /\ ret' = None
  /\ UNCHANGED <<input, fn_vars>>

\* if cnf.is_empty() { return Some(assignment.clone()) }
CheckSatisfied ==
  /\ stack # << >> /\ top.pc = "check"
  /\ top.cnf = << >>
  /\ stack' = Pop
  /\ ret' = Some(top.assignment)
  /\ UNCHANGED <<input, fn_vars>>

\* if cnf.iter().any(|clause| clause.is_empty()) { return None }
CheckConflict ==
  /\ stack # << >> /\ top.pc = "check"
  /\ top.cnf # << >>
  /\ \E i \in 1..Len(top.cnf) : top.cnf[i] = << >>
  /\ stack' = Pop
  /\ ret' = None
  /\ UNCHANGED <<input, fn_vars>>

PastChecks ==
  /\ stack # << >> /\ top.pc = "check"
  /\ top.cnf # << >>
  /\ \A i \in 1..Len(top.cnf) : top.cnf[i] # << >>

\* pick_literal gives Some(lit)
PickLiteral ==
  /\ PastChecks
  /\ LET p == pick_literal(top.cnf, top.assignment)
     IN /\ p.tag = "Some"
        /\ stack' = SetTop([top EXCEPT !.pc = "branch", !.literal = p.val,
                                       !.value = 1])
  /\ UNCHANGED <<input, ret, fn_vars>>

\* pick_literal gives None
DeadEnd ==
  /\ PastChecks
  /\ pick_literal(top.cnf, top.assignment).tag = "None"
  /\ stack' = Pop
  /\ ret' = dead_end(top.cnf, top.assignment)
  /\ UNCHANGED <<input, fn_vars>>

\* the body of the for loop up to the recursive call
Branch ==
  /\ stack # << >> /\ top.pc = "branch"
  /\ top.value <= Len(values)
  /\ stack' = Append(SetTop([top EXCEPT !.pc = "call"]),
                     Frame(top.cnf,
                           branch_assignment(top.assignment, top.literal,
                                             values[top.value])))
  /\ ret' = Running
  /\ UNCHANGED <<input, fn_vars>>

\* the recursive call is back: return Some(result), or go on with the loop
BranchResume ==
  /\ stack # << >> /\ top.pc = "call"
  /\ ret.tag # "Running"
  /\ IF ret.tag = "Some"
     THEN /\ stack' = Pop
          /\ ret' = ret
     ELSE /\ stack' = SetTop([top EXCEPT !.pc = "branch", !.value = @ + 1])
          /\ ret' = Running
  /\ UNCHANGED <<input, fn_vars>>

\* neither branch was satisfiable
BranchExhausted ==
  /\ stack # << >> /\ top.pc = "branch"
  /\ top.value > Len(values)
  /\ stack' = Pop
  /\ ret' = None
  /\ UNCHANGED <<input, fn_vars>>

Next ==
  \/ UnitPropagateStep
  \/ UnitPropagateBreak
  \/ UnitPropagateNone
  \/ CheckSatisfied
  \/ CheckConflict
  \/ PickLiteral
  \/ DeadEnd
  \/ Branch
  \/ BranchResume
  \/ BranchExhausted

Spec == Init /\ [][Next]_vars

\* the search is sequential code: a call that can take a step takes it
FairSpec == Spec /\ WF_vars(Next)

\* ------------------------------------ simplify and unit_propagate, called
\* directly with any CNF and any assignment
InitFn ==
  /\ input = << >>
  /\ stack = << >>
  /\ ret = Running
  /\ fn_pc = "start"
  /\ fn_in \in [cnf : CNF(MaxSize), assignment : Assignment]
  /\ fn_once = Running
  /\ fn_twice = Running
  /\ fn_up = [tag |-> "continue", cnf |-> fn_in.cnf,
              assignment |-> fn_in.assignment]

\* simplify(cnf, A)
FnSimplify ==
  /\ fn_pc = "start"
  /\ fn_once' = simplify(fn_in.cnf, fn_in.assignment)
  /\ fn_pc' = "simplified"
  /\ UNCHANGED <<dpll_vars, fn_in, fn_twice, fn_up>>

\* simplify(c1, A) on the result of FnSimplify
FnSimplifyAgain ==
  /\ fn_pc = "simplified"
  /\ fn_once.tag = "Some"
  /\ fn_twice' = simplify(fn_once.val, fn_in.assignment)
  /\ fn_pc' = "resimplified"
  /\ UNCHANGED <<dpll_vars, fn_in, fn_once, fn_up>>

\* unit_propagate(cnf, A), one iteration of its loop
FnUnitPropagate ==
  /\ fn_pc \in {"start", "propagating"}
  /\ fn_up.tag = "continue"
  /\ fn_up' = unit_propagate_iter(fn_up.cnf, fn_up.assignment)
  /\ fn_pc' = "propagating"
  /\ UNCHANGED <<dpll_vars, fn_in, fn_once, fn_twice>>

NextFn ==
  \/ FnSimplify
  \/ FnSimplifyAgain
  \/ FnUnitPropagate

SpecFn == InitFn /\ [][NextFn]_vars

\* ------------------------------------------------------------ properties
\* a literal evaluates true under A: its name is bound, to true for a
\* non-negated literal and to false for a negated one
EvaluatesTrue(literal, A) ==
  /\ literal.name \in DOMAIN A
  /\ A[literal.name] = (IF literal.negated THEN FALSE ELSE TRUE)

EvaluatesFalse(literal, A) ==
  /\ literal.name \in DOMAIN A
  /\ A[literal.name] = (IF literal.negated THEN TRUE ELSE FALSE)

Satisfies(A, cnf) ==
  \A i \in 1..Len(cnf) : \E j \in 1..Len(cnf[i]) : EvaluatesTrue(cnf[i][j], A)

Satisfiable(cnf) == \E A \in [Names -> BOOLEAN] : Satisfies(A, cnf)

VarsOf(cnf) ==
  {cnf[i][j].name : <<i, j>> \in
     {<<i, j>> \in (1..Len(cnf)) \X (1..MaxSize) : j <= Len(cnf[i])}}

HasEmptyClause(cnf) == \E i \in 1..Len(cnf) : cnf[i] = << >>
HasUnitClause(cnf) == \E i \in 1..Len(cnf) : Len(cnf[i]) = 1

\* C1 (soundness): whenever dpll, called with an empty assignment, returns
\* Some(A), every clause of the original input CNF holds a literal that
\* evaluates true under A.
C1_Soundness ==
  ret.tag = "Some" => Satisfies(ret.val, input)

\* the top-level call returned Some for a formula of two clauses
C1_Witness ==
  Done /\ ret.tag = "Some" /\ Len(input) = 2

\* C2: for every CNF that has a satisfying assignment dpll returns Some,
\* never None; for the single clause {a,b} the returned assignment binds
\* a = true.
C2_SatisfiableReturnsSome ==
  (Done /\ Satisfiable(input)) =>
     /\ ret.tag = "Some"
     /\ (input = << <<[name |-> "a", negated |-> FALSE],
                      [name |-> "b", negated |-> FALSE]>> >>
           => ret.val["a"] = TRUE)

\* C3 (completeness): for every CNF without a satisfying assignment, one
\* holding an empty clause included, dpll returns None.
C3_Completeness ==
  (Done /\ ~Satisfiable(input)) => ret.tag = "None"

\* an unsatisfiable formula without an empty clause was answered
C3_Witness ==
  Done /\ ~Satisfiable(input) /\ ~HasEmptyClause(input) /\ ret.tag = "None"

\* a nested call was made: a frame was pushed on the calling frame
NestedCall == Len(stack') = Len(stack) + 1 /\ stack # << >>

\* C4 (termination): every dpll call eventually returns; every nested call
\* binds exactly one variable that was unassigned in its parent; the number
\* of nested branching decisions on a path never exceeds the number of
\* distinct variable names of the input CNF.
C4_Termination ==
  /\ <>Done
  /\ [](Len(stack) - 1 <= Cardinality(VarsOf(input)))
  /\ [][NestedCall =>
          \E n \in Names \ DOMAIN top.assignment :
             DOMAIN stack'[Len(stack')].assignment
               = (DOMAIN top.assignment) \cup {n}]_vars

\* the recursion is as deep as the formula has variables
C4_Witness ==
  /\ Cardinality(VarsOf(input)) = NumVars
  /\ Len(stack) - 1 = NumVars

\* C5 (idempotent simplification): if simplify(cnf, A) returns Some(c1)
\* then simplify(c1, A) returns Some(c1): same clauses, literals and order.
C5_SimplifyIdempotent ==
  fn_pc = "resimplified" => fn_twice = fn_once

\* simplify removed a clause and kept one, and was applied again
C5_Witness ==
  /\ fn_pc = "resimplified"
  /\ fn_once.val # << >>
  /\ Len(fn_once.val) < Len(fn_in.cnf)

\* C6: whenever simplify(cnf, A) returns Some(c), no clause of c holds a
\* literal that evaluates false under A: every literal left has an
\* unassigned variable.
C6_NoFalsifiedLiteral ==
  (fn_pc = "simplified" /\ fn_once.tag = "Some") =>
     \A i \in 1..Len(fn_once.val) : \A j \in 1..Len(fn_once.val[i]) :
        /\ ~EvaluatesFalse(fn_once.val[i][j], fn_in.assignment)
        /\ fn_once.val[i][j].name \notin DOMAIN fn_in.assignment

\* C7: in every dpll call reachable from a top-level call with an empty
\* assignment, when the propagated CNF is non-empty and holds no empty
\* clause, pick_literal returns a literal whose variable is unbound.
C7_NoDeadEnd ==
  PastChecks =>
     LET p == pick_literal(top.cnf, top.assignment)
     IN /\ p.tag = "Some"
        /\ p.val.name \notin DOMAIN top.assignment

\* the first unit clause asks for the opposite of what its variable is bound to
UnitConflict(cnf, A) ==
  /\ find_unit(cnf) # 0
  /\ EvaluatesFalse(cnf[find_unit(cnf)][1], A)

\* C8: whenever unit_propagate returns Some(c), c holds no clause of exactly
\* one literal; and it returns None as soon as it meets a unit clause whose
\* variable is bound to the opposite of the value the clause requires.
C8_UnitPropagateFixedPoint ==
  [][fn_pc' = "propagating" =>
       /\ (fn_up'.tag = "break" => ~HasUnitClause(fn_up'.cnf))
       /\ (UnitConflict(fn_up.cnf, fn_up.assignment) => fn_up'.tag = "None")]_vars

\* unit propagation resolved a unit clause and came to its fixed point with
\* clauses left
C8_Witness ==
  /\ fn_up.tag = "break"
  /\ fn_up.cnf # << >>
  /\ Len(fn_up.cnf) < Len(fn_in.cnf)

\* every binding of A is a binding of B
Extends(B, A) ==
  \A n \in DOMAIN A : n \in DOMAIN B /\ B[n] = A[n]

\* C9: along a recursion path a binding, once added, is never changed or
\* removed; a nested call starts from the node's post-propagation CNF and
\* assignment plus the branch binding; nothing done in a subtree changes
\* the assignment or the CNF of a frame below it, nor those of a frame that
\* is past its propagation.
C9_BranchIsolation ==
  [][/\ \A d \in 1..Len(stack) :
          d <= Len(stack') =>
             /\ Extends(stack'[d].assignment, stack[d].assignment)
             /\ (d < Len(stack) \/ stack[d].pc # "unit_propagate") =>
                   /\ stack'[d].assignment = stack[d].assignment
                   /\ stack'[d].cnf = stack[d].cnf
     /\ NestedCall =>
          /\ stack'[Len(stack')].cnf = top.cnf
          /\ stack'[Len(stack')].assignment
               = [n \in (DOMAIN top.assignment) \cup {top.literal.name} |->
                    IF n \in DOMAIN top.assignment
                    THEN top.assignment[n]
                    ELSE values[top.value]]]_vars

\* the false branch is running below a node whose propagation bound a variable
C9_Witness ==
  /\ Len(stack) = 2
  /\ stack[1].value = 2
  /\ DOMAIN stack[1].assignment # {}
  /\ stack[2].assignment[stack[1].literal.name] = FALSE

====
